---- MODULE Spec2Model ----
(***************************************************************************)
(* Tsion: a textual serialization codec with a deduplicating dictionary    *)
(* prefix (Encoder, Decoder, Symbols, and the Tsion facade).               *)
(*                                                                         *)
(* A JavaScript string is modelled as a sequence of characters; each       *)
(* character is a one-character TLA+ string, except the four control       *)
(* characters NUL, TAB, LF, CR, which are named.  The empty TLA+ string "" *)
(* is what Decoder.char() returns past the end of the source.              *)
(***************************************************************************)
EXTENDS Integers, Sequences, FiniteSets, TLC

VARIABLES value, text, result, pc, encoder, decoder, calls

vars == <<value, text, result, pc, encoder, decoder, calls>>

-----------------------------------------------------------------------------
(* Characters and strings *)

NUL == "NUL"
TAB == "TAB"
LF == "LF"
CR == "CR"
BS == "\\"

Digits == <<"0", "1", "2", "3", "4", "5", "6", "7", "8", "9">>

DigitSet == {Digits[i] : i \in 1..10}

IsDigit(c) == c \in DigitSet

DigitValue(c) == (CHOOSE i \in 1..10 : Digits[i] = c) - 1

\* String(n) for a non-negative integer n: its decimal digits.
RECURSIVE NatToChars(_)
NatToChars(n) ==
  IF n < 10 THEN <<Digits[n + 1]>>
  ELSE NatToChars(n \div 10) \o <<Digits[(n % 10) + 1]>>

\* `${value}` for an integer-valued number or a bigint.
IntToChars(n) == IF n < 0 THEN <<"-">> \o NatToChars(0 - n) ELSE NatToChars(n)

\* The value of a non-empty sequence of decimal digits.
RECURSIVE DigitsToNat(_)
DigitsToNat(s) ==
  IF s = <<>> THEN 0
  ELSE 10 * DigitsToNat(SubSeq(s, 1, Len(s) - 1)) + DigitValue(s[Len(s)])

AllDigits(s) == \A i \in 1..Len(s) : IsDigit(s[i])

\* What string concatenation makes of a missing Map entry (`undefined`).
Undefined == <<"u", "n", "d", "e", "f", "i", "n", "e", "d">>

-----------------------------------------------------------------------------
(* A JavaScript Map: entries in insertion order *)

MapHas(m, key) == \E i \in 1..Len(m) : m[i].key = key

MapGet(m, key) ==
  IF MapHas(m, key) THEN m[CHOOSE i \in 1..Len(m) : m[i].key = key].val
  ELSE Undefined

MapSet(m, key, val) ==
  IF MapHas(m, key)
  THEN [i \in 1..Len(m) |-> IF m[i].key = key THEN [key |-> key, val |-> val] ELSE m[i]]
  ELSE Append(m, [key |-> key, val |-> val])

-----------------------------------------------------------------------------
(* Symbols *)

sigils == {":", "$", "&", "#", "%"}

delimiters == {"[", "]", "{", "}"}

\* Mutant: NUL left out of the escaping symbols.
getEscapingSymbolsWithoutNul == sigils \cup delimiters \cup {BS, TAB, LF, CR}

getEscapingSymbols == sigils \cup delimiters \cup {BS, NUL, TAB, LF, CR}

-----------------------------------------------------------------------------
(* Values: the domain of encode and the range of decode.  Every value is a *)
(* record of the same shape; `k` is the kind and the other fields hold the *)
(* payload of that kind:                                                   *)
(*   num     n * 10^e, with n not divisible by 10 unless n = 0 and e = 0   *)
(*   bigint  n                                                             *)
(*   str     s, a sequence of characters                                   *)
(*   arr     items                                                         *)
(*   obj     own enumerable string keys `keys` (in Object.keys order) and  *)
(*           their values `items`, position by position                   *)

Val(k, n, e, s, items, keys) ==
  [k |-> k, n |-> n, e |-> e, s |-> s, items |-> items, keys |-> keys]

Null == Val("null", 0, 0, <<>>, <<>>, <<>>)

True == Val("true", 0, 0, <<>>, <<>>, <<>>)

False == Val("false", 0, 0, <<>>, <<>>, <<>>)

Inf == Val("inf", 0, 0, <<>>, <<>>, <<>>)

NInf == Val("ninf", 0, 0, <<>>, <<>>, <<>>)

NaN == Val("nan", 0, 0, <<>>, <<>>, <<>>)

\* The number m * 10^x in its unique normal form.
RECURSIVE Number(_, _)
Number(m, x) ==
  IF m = 0 THEN Val("num", 0, 0, <<>>, <<>>, <<>>)
  ELSE IF m % 10 = 0 THEN Number(m \div 10, x + 1)
  ELSE Val("num", m, x, <<>>, <<>>, <<>>)

Num(n) == Number(n, 0)

BigInt(n) == Val("bigint", n, 0, <<>>, <<>>, <<>>)

Str(s) == Val("str", 0, 0, s, <<>>, <<>>)

Arr(items) == Val("arr", 0, 0, <<>>, items, <<>>)

Obj(keys, items) == Val("obj", 0, 0, <<>>, items, keys)

\* m * 10^x for an integer-valued number (x >= 0).
RECURSIVE Scale(_, _)
Scale(m, x) == IF x = 0 THEN m ELSE Scale(m * 10, x - 1)

-----------------------------------------------------------------------------
(* Encoder *)

\* The fields of an Encoder instance right after construction.
NewEncoder ==
  [content |-> <<>>,
   dictionary |-> <<>>,
   literalMap |-> <<>>,
   literalPlaceholderMap |-> <<>>,
   structureMap |-> <<>>,
   structurePlaceholderMap |-> <<>>,
   duplicatePlaceholderMap |-> <<>>]

\* value.replace(pattern, "\\$1"): a backslash before every escaping symbol.
RECURSIVE EscapeString(_)
EscapeString(s) ==
  IF s = <<>> THEN <<>>
  ELSE (IF Head(s) \in getEscapingSymbols THEN <<BS, Head(s)>> ELSE <<Head(s)>>)
       \o EscapeString(Tail(s))

RECURSIVE Zeros(_)
Zeros(n) == IF n <= 0 THEN <<>> ELSE <<"0">> \o Zeros(n - 1)

\* `${value}` for a finite number n * 10^e (the plain decimal notation that
\* JavaScript uses for magnitudes between 1e-6 and 1e21).
NumberToChars(v) ==
  IF v.e >= 0 THEN IntToChars(Scale(v.n, v.e))
  ELSE LET d == NatToChars(IF v.n < 0 THEN 0 - v.n ELSE v.n)
           sign == IF v.n < 0 THEN <<"-">> ELSE <<>>
           f == 0 - v.e
       IN IF Len(d) > f
          THEN sign \o SubSeq(d, 1, Len(d) - f) \o <<".">> \o SubSeq(d, Len(d) - f + 1, Len(d))
          ELSE sign \o <<"0", ".">> \o Zeros(f - Len(d)) \o d

addLiteral(e, literal) ==
  IF MapHas(e.literalPlaceholderMap, literal)
  THEN [enc |-> e, ret |-> MapGet(e.literalPlaceholderMap, literal)]
  ELSE LET literalPlaceholder == <<"?">> \o NatToChars(Len(e.literalMap))
       IN [enc |-> [e EXCEPT !.literalMap = MapSet(@, literalPlaceholder, literal),
                             !.literalPlaceholderMap = MapSet(@, literal, literalPlaceholder)],
           ret |-> literalPlaceholder]

addStructure(e, structure) ==
  IF MapHas(e.structurePlaceholderMap, structure)
  THEN [enc |-> e, ret |-> MapGet(e.structurePlaceholderMap, structure)]
  ELSE LET structurePlaceholder == <<"+">> \o NatToChars(Len(e.structureMap))
       IN [enc |-> [e EXCEPT !.structureMap = MapSet(@, structurePlaceholder, structure),
                             !.structurePlaceholderMap = MapSet(@, structure, structurePlaceholder)],
           ret |-> structurePlaceholder]

\* Mutant: the next `$m` taken one too high.
addDuplicatePlaceholderOffByOne(e, encodingPlaceholder) ==
  [e EXCEPT !.duplicatePlaceholderMap =
     MapSet(@, encodingPlaceholder, <<"$">> \o NatToChars(Len(e.duplicatePlaceholderMap) + 1))]

addDuplicatePlaceholder(e, encodingPlaceholder) ==
  [e EXCEPT !.duplicatePlaceholderMap =
     MapSet(@, encodingPlaceholder, <<"$">> \o NatToChars(Len(e.duplicatePlaceholderMap)))]

StrItems(keys) == [i \in 1..Len(keys) |-> Str(keys[i])]

RECURSIVE encodeValue(_, _)
RECURSIVE encodeValues(_, _, _)
RECURSIVE encodeNext(_, _, _)

\* The loop `for (const tmpValue of ...) structure += this.encodeValue(tmpValue)`.
encodeValues(e, items, structure) ==
  IF items = <<>> THEN [enc |-> e, ret |-> structure]
  ELSE encodeNext(encodeValue(e, Head(items)), Tail(items), structure)

\* structure += this.encodeValue(tmpValue), r being what the call returned and
\* the fields it left.
encodeNext(r, items, structure) == encodeValues(r.enc, items, structure \o r.ret)

\* structure += "]" (or "}") and return this.addStructure(structure).
closeStructure(r, closing) == addStructure(r.enc, r.ret \o closing)

encodeValue(e, v) ==
  CASE v.k = "null" -> [enc |-> e, ret |-> <<":", "n">>]
    [] v.k = "true" -> [enc |-> e, ret |-> <<":", "t">>]
    [] v.k = "false" -> [enc |-> e, ret |-> <<":", "f">>]
    [] v.k = "str" -> addLiteral(e, <<"&">> \o EscapeString(v.s))
    [] v.k = "inf" -> [enc |-> e, ret |-> <<":", "i", "n", "f">>]
    [] v.k = "ninf" -> [enc |-> e, ret |-> <<":", "n", "i", "n", "f">>]
    [] v.k = "nan" -> [enc |-> e, ret |-> <<":", "n", "a", "n">>]
    [] v.k = "num" -> addLiteral(e, <<"#">> \o NumberToChars(v))
    [] v.k = "bigint" -> addLiteral(e, <<"%">> \o IntToChars(v.n))
    [] v.k = "arr" -> closeStructure(encodeValues(e, v.items, <<"[">>), <<"]">>)
    [] v.k = "obj" ->
         closeStructure(encodeValues(e, IF Len(v.keys) = 1 THEN <<Str(v.keys[1]), v.items[1]>>
                                        ELSE IF Len(v.keys) >= 2
                                        THEN <<Arr(StrItems(v.keys))>> \o v.items
                                        ELSE <<>>,
                                     <<"{">>),
                        <<"}">>)

\* The end of the digits that start at position i of s (i itself if none).
RECURSIVE DigitsEnd(_, _)
DigitsEnd(s, i) == IF i <= Len(s) /\ IsDigit(s[i]) THEN DigitsEnd(s, i + 1) ELSE i

IsPlaceholderAt(s, i) ==
  /\ i < Len(s)
  /\ s[i] \in {"?", "+"}
  /\ IsDigit(s[i + 1])

\* source.split(/([?+]\d+)/g): the parts from position i on, the text part
\* collected so far being `cur`.  Text parts and placeholders alternate.
RECURSIVE SplitParts(_, _, _)
SplitParts(s, i, cur) ==
  IF i > Len(s) THEN <<cur>>
  ELSE IF IsPlaceholderAt(s, i)
  THEN LET j == DigitsEnd(s, i + 1)
       IN <<cur, SubSeq(s, i, j - 1)>> \o SplitParts(s, j, <<>>)
  ELSE SplitParts(s, i + 1, Append(cur, s[i]))

\* structure.match(/[?+]\d+/g) ?? []
RECURSIVE MatchPlaceholders(_, _)
MatchPlaceholders(s, i) ==
  IF i > Len(s) THEN <<>>
  ELSE IF IsPlaceholderAt(s, i)
  THEN LET j == DigitsEnd(s, i + 1)
       IN <<SubSeq(s, i, j - 1)>> \o MatchPlaceholders(s, j)
  ELSE MatchPlaceholders(s, i + 1)

RECURSIVE replaceParts(_, _, _)
replaceParts(e, parts, res) ==
  IF parts = <<>> THEN res
  ELSE LET part == Head(parts)
           isEncodingPlaceholder == part # <<>> /\ part[1] \in {"?", "+"}
       IN replaceParts(e, Tail(parts),
            res \o (IF ~isEncodingPlaceholder THEN part
                    ELSE IF MapHas(e.duplicatePlaceholderMap, part)
                    THEN MapGet(e.duplicatePlaceholderMap, part)
                    ELSE IF part[1] = "?" THEN MapGet(e.literalMap, part)
                    ELSE MapGet(e.structureMap, part)))

replaceEncodingPlaceholders(e, source) ==
  replaceParts(e, SplitParts(source, 1, <<>>), <<>>)

\* encodingPlaceholderCounts after the scan of the structures from index i on.
RECURSIVE CountList(_, _)
CountList(counts, placeholders) ==
  IF placeholders = <<>> THEN counts
  ELSE LET p == Head(placeholders)
           c == IF MapHas(counts, p) THEN MapGet(counts, p) ELSE 0
       IN CountList(MapSet(counts, p, c + 1), Tail(placeholders))

\* Mutant: a placeholder counted once for each body it occurs in.
RECURSIVE CountStructuresOncePerBody(_, _, _)
CountStructuresOncePerBody(structureMap, i, counts) ==
  IF i > Len(structureMap) THEN counts
  ELSE LET m == MatchPlaceholders(structureMap[i].val, 1)
           first == SelectSeq([j \in 1..Len(m) |-> j],
                              LAMBDA j : \A k \in 1..(j - 1) : m[k] # m[j])
       IN CountStructuresOncePerBody(structureMap, i + 1,
            CountList(counts, [j \in 1..Len(first) |-> m[first[j]]]))

RECURSIVE CountStructures(_, _, _)
CountStructures(structureMap, i, counts) ==
  IF i > Len(structureMap) THEN counts
  ELSE CountStructures(structureMap, i + 1,
         CountList(counts, MatchPlaceholders(structureMap[i].val, 1)))

\* The two returned Sets, each as the sequence of its members in insertion
\* order, the test `count < 2` being `count < least`.
DuplicatesFrom(e, least) ==
  LET counts == CountStructures(e.structureMap, 1, <<>>)
      dup == SelectSeq(counts, LAMBDA c : ~(c.val < least))
      keyOf(q) == [i \in 1..Len(q) |-> q[i].key]
  IN [literalPlaceholders |-> keyOf(SelectSeq(dup, LAMBDA c : c.key[1] = "?")),
      structurePlaceholders |-> keyOf(SelectSeq(dup, LAMBDA c : c.key[1] # "?"))]

\* Mutant: a placeholder is lifted only from its third occurrence on.
findDuplicatesOfThree(e) == DuplicatesFrom(e, 3)

\* Mutant: a placeholder is lifted from its first occurrence on.
findDuplicatesOfOne(e) == DuplicatesFrom(e, 1)

findDuplicateEncodingPlaceholders(e) == DuplicatesFrom(e, 2)

SeqHas(q, x) == \E i \in 1..Len(q) : q[i] = x

RECURSIVE replaceLiterals(_, _)
replaceLiterals(e, duplicateLiteralPlaceholders) ==
  IF duplicateLiteralPlaceholders = <<>> THEN e
  ELSE LET literalPlaceholder == Head(duplicateLiteralPlaceholders)
           literal == MapGet(e.literalMap, literalPlaceholder)
           e1 == addDuplicatePlaceholder(e, literalPlaceholder)
       IN replaceLiterals([e1 EXCEPT !.dictionary = @ \o literal],
                          Tail(duplicateLiteralPlaceholders))

RECURSIVE replaceStructures(_, _, _)
\* One pass of the loop over structureMap: the structure stored rewritten
\* and, when it is a duplicate, lifted into the dictionary.
replaceStructure(e, structurePlaceholder, replacedStructure, isDuplicate) ==
  IF ~isDuplicate
  THEN [e EXCEPT !.structureMap = MapSet(@, structurePlaceholder, replacedStructure)]
  ELSE [addDuplicatePlaceholder(e, structurePlaceholder)
          EXCEPT !.structureMap = MapSet(@, structurePlaceholder, replacedStructure),
                 !.dictionary = @ \o replacedStructure]

replaceStructures(e, i, duplicateStructurePlaceholders) ==
  IF i > Len(e.structureMap) THEN e
  ELSE replaceStructures(
         replaceStructure(e, e.structureMap[i].key,
                          replaceEncodingPlaceholders(e, e.structureMap[i].val),
                          SeqHas(duplicateStructurePlaceholders, e.structureMap[i].key)),
         i + 1, duplicateStructurePlaceholders)

\* this.content = this.replaceEncodingPlaceholders(this.content).
replaceContent(e) == [e EXCEPT !.content = replaceEncodingPlaceholders(e, e.content)]

\* Mutant: the structures rewritten and lifted before the literals.
replaceStructuresFirst(e, d) ==
  replaceContent(replaceLiterals(replaceStructures(e, 1, d.structurePlaceholders),
                                 d.literalPlaceholders))

\* The two loops of replace and its last statement, d being the duplicate
\* placeholders found.
replaceDuplicates(e, d) ==
  replaceContent(replaceStructures(replaceLiterals(e, d.literalPlaceholders),
                                   1, d.structurePlaceholders))

replace(e) == replaceDuplicates(e, findDuplicateEncodingPlaceholders(e))

\* Mutant: the separator written also after an empty dictionary.
encodeAlwaysSeparator(e) ==
  [enc |-> e, ret |-> e.dictionary \o <<NUL>> \o e.content]

\* The return statement of encode, e being the fields after replace.
encodeResult(e) ==
  [enc |-> e,
   ret |-> (IF Len(e.dictionary) # 0 THEN e.dictionary \o <<NUL>> ELSE <<>>) \o e.content]

\* this.content = this.encodeValue(value), r being what the call returned and
\* the fields it left.
encodeContent(r) == [r.enc EXCEPT !.content = r.ret]

\* Encoder.encode on an instance whose fields are e: the fields afterwards
\* and the returned text.
encode(e, v) == encodeResult(replace(encodeContent(encodeValue(e, v))))

-----------------------------------------------------------------------------
(* Decoder *)

\* The fields of a Decoder instance right after construction.
NewDecoder == [source |-> <<>>, index |-> 0, dictionaryMap |-> <<>>]

\* A function of the Decoder returns a value and leaves the cursor at
\* `index`, or throws with the cursor at `index`.
Return(i, v) == [ok |-> TRUE, index |-> i, value |-> v, error |-> ""]

Throw(i, message) == [ok |-> FALSE, index |-> i, value |-> Null, error |-> message]

char(source, index) == IF index < Len(source) THEN source[index + 1] ELSE ""

isSeparator(source, index) == char(source, index) = NUL

isEnded(source, index) == char(source, index) = ""

isToken(source, index) ==
  /\ char(source, index) \notin sigils
  /\ char(source, index) \notin delimiters
  /\ ~isSeparator(source, index)
  /\ ~isEnded(source, index)

\* The loop `while (this.isToken()) { value += this.char(); this.index++; }`:
\* the index at which it stops.
RECURSIVE TokenEnd(_, _)
TokenEnd(source, index) ==
  IF isToken(source, index) THEN TokenEnd(source, index + 1) ELSE index

\* The end of decodePlaceholder, the key having been read up to `end`.
decodePlaceholderValue(dictionaryMap, end, placeholder) ==
  IF ~MapHas(dictionaryMap, placeholder) THEN Throw(end, "Unknown value $")
  ELSE Return(end, MapGet(dictionaryMap, placeholder))

decodePlaceholderRead(source, dictionaryMap, index, end) ==
  decodePlaceholderValue(dictionaryMap, end, <<"$">> \o SubSeq(source, index + 2, end))

\* Mutant: an unknown placeholder read as null instead of thrown.
decodePlaceholderOrNull(source, dictionaryMap, index) ==
  LET r == decodePlaceholderRead(source, dictionaryMap, index, TokenEnd(source, index + 1))
  IN IF r.ok THEN r ELSE Return(r.index, Null)

decodePlaceholder(source, dictionaryMap, index) ==
  decodePlaceholderRead(source, dictionaryMap, index, TokenEnd(source, index + 1))

\* The end of decodeConstant, v being the value read.
decodeConstantValue(end, v) ==
  CASE v = <<"n">> -> Return(end, Null)
    [] v = <<"t">> -> Return(end, True)
    [] v = <<"f">> -> Return(end, False)
    [] v = <<"i", "n", "f">> -> Return(end, Inf)
    [] v = <<"n", "i", "n", "f">> -> Return(end, NInf)
    [] v = <<"n", "a", "n">> -> Return(end, NaN)
    [] OTHER -> Throw(end, "Unknown value :")

decodeConstantRead(source, index, end) ==
  decodeConstantValue(end, SubSeq(source, index + 2, end))

decodeConstant(source, index) == decodeConstantRead(source, index, TokenEnd(source, index + 1))

\* The loop of decodeString, from the state (index, value, escaping).
RECURSIVE decodeStringLoop(_, _, _, _)
decodeStringLoop(source, index, v, escaping) ==
  IF ~(escaping \/ isToken(source, index)) THEN Return(index, Str(v))
  ELSE IF escaping /\ isEnded(source, index) THEN Throw(index, "Unexpected end of string")
  ELSE IF escaping /\ char(source, index) \notin getEscapingSymbols
  THEN Throw(index, "Unexpected escaped character")
  ELSE IF ~escaping /\ char(source, index) = BS
  THEN decodeStringLoop(source, index + 1, v, TRUE)
  ELSE decodeStringLoop(source, index + 1, Append(v, char(source, index)), FALSE)

decodeString(source, index) == decodeStringLoop(source, index + 1, <<>>, FALSE)

At(s, i) == IF i >= 1 /\ i <= Len(s) THEN s[i] ELSE ""

\* The end of a match of (?:0|[1-9]\d*) at position i of s, or 0 if none.
IntegerEnd(s, i) ==
  IF At(s, i) = "0" THEN i + 1
  ELSE IF IsDigit(At(s, i)) THEN DigitsEnd(s, i)
  ELSE 0

\* The groups of /^-?(?:0|[1-9]\d*)(?:\.\d+)?(?:[eE][+-]?(?:0|[1-9]\d*))?$/ in s:
\* where the integer part starts and ends, where fraction and exponent end.
NumberParts(s) ==
  LET p1 == IF At(s, 1) = "-" THEN 2 ELSE 1
      p2 == IntegerEnd(s, p1)
      hasFrac == p2 # 0 /\ At(s, p2) = "." /\ IsDigit(At(s, p2 + 1))
      p3 == IF hasFrac THEN DigitsEnd(s, p2 + 1) ELSE p2
      hasExp == p3 # 0 /\ At(s, p3) \in {"e", "E"}
      p4 == IF hasExp /\ At(s, p3 + 1) \in {"+", "-"} THEN p3 + 2 ELSE p3 + 1
      p5 == IF hasExp THEN IntegerEnd(s, p4) ELSE p3
  IN [test |-> p2 # 0 /\ p5 = Len(s) + 1,
      negative |-> p1 = 2,
      mantissa |-> SubSeq(s, p1, p2 - 1) \o (IF hasFrac THEN SubSeq(s, p2 + 1, p3 - 1) ELSE <<>>),
      fraction |-> IF hasFrac THEN p3 - p2 - 1 ELSE 0,
      exponent |-> IF hasExp
                   THEN (IF At(s, p3 + 1) = "-" THEN 0 - 1 ELSE 1) * DigitsToNat(SubSeq(s, p4, p5 - 1))
                   ELSE 0]

\* Number(value) for a string the regex accepts (as an exact decimal; the
\* rounding and the overflow of IEEE-754 doubles are not modelled).
ToNumber(p) ==
  Number((IF p.negative THEN 0 - 1 ELSE 1) * DigitsToNat(p.mantissa), p.exponent - p.fraction)

\* The end of decodeNumber, p being the groups of the regex in the value read.
decodeNumberValue(end, p) ==
  IF ~p.test THEN Throw(end, "Unexpected value #") ELSE Return(end, ToNumber(p))

decodeNumberRead(source, index, end) ==
  decodeNumberValue(end, NumberParts(SubSeq(source, index + 2, end)))

decodeNumber(source, index) == decodeNumberRead(source, index, TokenEnd(source, index + 1))

\* The end of decodeBigInt, v being the value read.
decodeBigIntValue(end, v) ==
  LET p1 == IF At(v, 1) = "-" THEN 2 ELSE 1
      test == IntegerEnd(v, p1) = Len(v) + 1
  IN IF ~test THEN Throw(end, "Unexpected value %")
     ELSE Return(end, BigInt((IF p1 = 2 THEN 0 - 1 ELSE 1) * DigitsToNat(SubSeq(v, p1, Len(v)))))

decodeBigIntRead(source, index, end) ==
  decodeBigIntValue(end, SubSeq(source, index + 2, end))

decodeBigInt(source, index) == decodeBigIntRead(source, index, TokenEnd(source, index + 1))

\* The property key "__proto__": on a plain object it is the accessor
\* Object.prototype.__proto__, not an own property.
ProtoKey == <<"_", "_", "p", "r", "o", "t", "o", "_", "_">>

\* A canonical array index: own keys of this form are listed first, in
\* ascending numeric order, by Object.keys.
IsArrayIndex(key) == key # <<>> /\ AllDigits(key) /\ (Len(key) = 1 \/ key[1] # "0")

\* Where a new own property `key` is listed among the own keys `keys`.
KeyPosition(keys, key) ==
  IF IsArrayIndex(key)
  THEN 1 + Cardinality({i \in 1..Len(keys) :
                          IsArrayIndex(keys[i]) /\ DigitsToNat(keys[i]) < DigitsToNat(key)})
  ELSE Len(keys) + 1

InsertAt(q, i, x) == SubSeq(q, 1, i - 1) \o <<x>> \o SubSeq(q, i, Len(q))

\* object[key] = v on an object created by `{}`.
ObjectSet(object, key, v) ==
  IF key = ProtoKey THEN object
  ELSE IF SeqHas(object.keys, key)
  THEN LET i == CHOOSE j \in 1..Len(object.keys) : object.keys[j] = key
       IN [object EXCEPT !.items[i] = v]
  ELSE LET i == KeyPosition(object.keys, key)
       IN [object EXCEPT !.keys = InsertAt(@, i, key), !.items = InsertAt(@, i, v)]

RECURSIVE decodeToken(_, _, _)
RECURSIVE decodeArrayLoop(_, _, _, _)
RECURSIVE decodeObjectLoop(_, _, _, _, _, _)

\* array.push(value), r being the outcome of this.decodeToken().
decodeArrayPush(source, dictionaryMap, array, r) ==
  IF ~r.ok THEN r
  ELSE decodeArrayLoop(source, dictionaryMap, r.index, Append(array, r.value))

\* The loop of decodeArray and what follows it; c is this.char().
decodeArrayStep(source, dictionaryMap, index, array, c) ==
  IF c \notin {"]", NUL, ""}
  THEN decodeArrayPush(source, dictionaryMap, array, decodeToken(source, dictionaryMap, index))
  ELSE IF c # "]" THEN Throw(index, "Missing character ]")
  ELSE Return(index + 1, Arr(array))

decodeArrayLoop(source, dictionaryMap, index, array) ==
  decodeArrayStep(source, dictionaryMap, index, array, char(source, index))

decodeArray(source, dictionaryMap, index) ==
  decodeArrayLoop(source, dictionaryMap, index + 1, <<>>)

\* The first value of an object, v: a key or a list of keys.
decodeObjectKeys(source, dictionaryMap, index, object, v, i) ==
  LET isString == v.k = "str"
      isStringArray == /\ v.k = "arr"
                       /\ Len(v.items) > 1
                       /\ \A j \in 1..Len(v.items) : v.items[j].k = "str"
  IN IF ~isString /\ ~isStringArray
     THEN Throw(index, "Invalid key or list of keys in object")
     ELSE decodeObjectLoop(source, dictionaryMap, index, object,
            <<IF isStringArray THEN [j \in 1..Len(v.items) |-> v.items[j].s]
              ELSE <<v.s>>>>, i)

\* The body of the loop of decodeObject, r being the outcome of
\* this.decodeToken().
decodeObjectValue(source, dictionaryMap, object, keys, i, r) ==
  IF ~r.ok THEN r
  ELSE IF keys = <<>>
  THEN decodeObjectKeys(source, dictionaryMap, r.index, object, r.value, i)
  ELSE decodeObjectLoop(source, dictionaryMap, r.index,
         ObjectSet(object, IF i < Len(keys[1]) THEN keys[1][i + 1] ELSE Undefined, r.value),
         keys, i + 1)

\* The loop of decodeObject and what follows it; c is this.char().
decodeObjectStep(source, dictionaryMap, index, object, keys, i, c) ==
  IF c \notin {"}", NUL, ""}
  THEN decodeObjectValue(source, dictionaryMap, object, keys, i,
                         decodeToken(source, dictionaryMap, index))
  ELSE IF c # "}" THEN Throw(index, "Missing character }")
  ELSE IF keys # <<>> /\ Len(keys[1]) # i
  THEN Throw(index, "Unexpected number of values in object")
  ELSE Return(index + 1, object)

\* keys is <<>> while the source's `keys` is null, else <<the list of keys>>.
decodeObjectLoop(source, dictionaryMap, index, object, keys, i) ==
  decodeObjectStep(source, dictionaryMap, index, object, keys, i, char(source, index))

decodeObject(source, dictionaryMap, index) ==
  decodeObjectLoop(source, dictionaryMap, index + 1, Obj(<<>>, <<>>), <<>>, 0)

\* The switch of decodeToken; c is this.char().
decodeSwitch(source, dictionaryMap, index, c) ==
  CASE c = "$" -> decodePlaceholder(source, dictionaryMap, index)
    [] c = ":" -> decodeConstant(source, index)
    [] c = "&" -> decodeString(source, index)
    [] c = "#" -> decodeNumber(source, index)
    [] c = "%" -> decodeBigInt(source, index)
    [] c = "[" -> decodeArray(source, dictionaryMap, index)
    [] c = "{" -> decodeObject(source, dictionaryMap, index)
    [] OTHER -> Throw(index, "Unexpected character")

decodeToken(source, dictionaryMap, index) ==
  decodeSwitch(source, dictionaryMap, index, char(source, index))

RECURSIVE decodeDictionary(_)

\* this.dictionaryMap.set(placeholder, value), r being the outcome of
\* this.decodeToken().
decodeDictionarySet(d, r) ==
  IF ~r.ok THEN [dec |-> [d EXCEPT !.index = r.index], thrown |-> r]
  ELSE decodeDictionary([d EXCEPT !.index = r.index,
                                  !.dictionaryMap =
                                    MapSet(@, <<"$">> \o NatToChars(Len(d.dictionaryMap)), r.value)])

\* The first loop of decode: the instance after it, and whether it threw.
decodeDictionary(d) ==
  IF char(d.source, d.index) \notin {NUL, ""}
  THEN decodeDictionarySet(d, decodeToken(d.source, d.dictionaryMap, d.index))
  ELSE [dec |-> d, thrown |-> Return(d.index, Null)]

\* The end of decode, r being the outcome of the decodeToken after the
\* separator: nothing may follow the content.
decodeEnd(d, r) ==
  IF r.ok /\ ~isEnded(d.source, r.index)
  THEN [dec |-> [d EXCEPT !.index = r.index], ret |-> Throw(r.index, "Bad input.")]
  ELSE [dec |-> [d EXCEPT !.index = r.index], ret |-> r]

\* decode from the separator on, d being the instance after `this.index++`.
decodeContent(d) ==
  IF isEnded(d.source, d.index) THEN [dec |-> d, ret |-> Throw(d.index, "Bad input.")]
  ELSE decodeEnd(d, decodeToken(d.source, d.dictionaryMap, d.index))

\* Mutant: content-only input accepted whatever the number of its tokens.
decodeAnyCount(d, thrown) ==
  IF ~thrown.ok THEN [dec |-> d, ret |-> thrown]
  ELSE IF ~isSeparator(d.source, d.index)
  THEN IF Len(d.dictionaryMap) = 0
       THEN [dec |-> d, ret |-> Throw(d.index, "Bad input.")]
       ELSE [dec |-> d, ret |-> Return(d.index, MapGet(d.dictionaryMap, <<"$", "0">>))]
  ELSE decodeContent([d EXCEPT !.index = @ + 1])

\* decode after its first loop, which left the instance d and threw or not.
decodeAfterDictionary(d, thrown) ==
  IF ~thrown.ok THEN [dec |-> d, ret |-> thrown]
  ELSE IF ~isSeparator(d.source, d.index)
  THEN IF Len(d.dictionaryMap) # 1
       THEN [dec |-> d, ret |-> Throw(d.index, "Bad input.")]
       ELSE [dec |-> d, ret |-> Return(d.index, MapGet(d.dictionaryMap, <<"$", "0">>))]
  ELSE decodeContent([d EXCEPT !.index = @ + 1])

decodeLoops(l) == decodeAfterDictionary(l.dec, l.thrown)

\* Decoder.decode on an instance whose fields are d0: the fields afterwards
\* and the outcome (the returned value, or the error thrown).
decode(d0, source) == decodeLoops(decodeDictionary([d0 EXCEPT !.source = source]))

-----------------------------------------------------------------------------
(* The values handed to Tsion.encode *)

\* The largest number of nodes (values and object keys) of a generated value.
MaxNodes == 5

\* The generated values are listed in sequences, each value once.
Atoms == <<Null, Num(1), Str(<<"a">>), Str(<<"?", "0">>)>>

\* The lists of `len` distinct keys an object may have.
KeyLists(len) ==
  IF len = 1 THEN <<<<<<"a">>>>, <<<<"k">>>>>>
  ELSE <<<<<<"a">>, <<"k">>>>, <<<<"k">>, <<"a">>>>>>

\* The lists <<v>> \o q for v in vs and q in qs.
Prepend(vs, qs) ==
  [i \in 1..(Len(vs) * Len(qs)) |->
     <<vs[((i - 1) \div Len(qs)) + 1]>> \o qs[((i - 1) % Len(qs)) + 1]]

\* The arrays whose items are the lists qs.
Arrays(qs) == [i \in 1..Len(qs) |-> Arr(qs[i])]

\* The objects of keys kss that have the lists qs as values.
Objects(kss, qs) ==
  [i \in 1..(Len(kss) * Len(qs)) |->
     Obj(kss[((i - 1) \div Len(qs)) + 1], qs[((i - 1) % Len(qs)) + 1])]

RECURSIVE ListsOfSize(_, _, _)

\* The lists of `len` values of `total` nodes together whose first value has
\* n nodes or more, sized[m] being the values of exactly m nodes.
RECURSIVE ListsFrom(_, _, _, _)
ListsFrom(sized, len, total, n) ==
  IF n > total - len + 1 THEN <<>>
  ELSE Prepend(sized[n], ListsOfSize(sized, len - 1, total - n))
       \o ListsFrom(sized, len, total, n + 1)

\* The lists of `len` values that have `total` nodes together.
ListsOfSize(sized, len, total) ==
  IF len = 0 THEN (IF total = 0 THEN <<<<>>>> ELSE <<>>)
  ELSE ListsFrom(sized, len, total, 1)

\* The arrays of n nodes that have `len` items or more.
RECURSIVE ArraysFrom(_, _, _)
ArraysFrom(sized, n, len) ==
  IF len > n - 1 THEN <<>>
  ELSE Arrays(ListsOfSize(sized, len, n - 1)) \o ArraysFrom(sized, n, len + 1)

\* The values of exactly n nodes (each value and each object key is a
\* node), sized[m] being those of m < n nodes.
ValuesOfSize(sized, n) ==
  (IF n = 1 THEN Atoms \o <<Obj(<<>>, <<>>)>> ELSE <<>>)
  \o ArraysFrom(sized, n, 0)
  \o Objects(KeyLists(1), ListsOfSize(sized, 1, n - 2))
  \o Objects(KeyLists(2), ListsOfSize(sized, 2, n - 3))

AppendSized(sized, n) == Append(sized, ValuesOfSize(sized, n))

\* The values of 1, 2, ... n nodes.
RECURSIVE ValuesUpTo(_)
ValuesUpTo(n) == IF n = 0 THEN <<>> ELSE AppendSized(ValuesUpTo(n - 1), n)

RECURSIVE Flatten(_)
Flatten(sized) == IF sized = <<>> THEN <<>> ELSE Head(sized) \o Flatten(Tail(sized))

Range(q) == {q[i] : i \in 1..Len(q)}

GeneratedValues == Range(Flatten(ValuesUpTo(MaxNodes)))


\* The inputs of the concrete-scenario table.
Hello == <<"h", "e", "l", "l", "o">>

ScenarioNull == Null

ScenarioTrue == True

ScenarioHello == Str(Hello)

Scenario42 == Num(42)

ScenarioAA == Arr(<<Str(<<"a">>), Str(<<"a">>)>>)

ScenarioXY == Obj(<<<<"x">>, <<"y">>>>, <<Num(1), Num(2)>>)

ScenarioKK == Arr(<<Obj(<<<<"k">>>>, <<Num(1)>>), Obj(<<<<"k">>>>, <<Num(1)>>)>>)

ScenarioValues ==
  {ScenarioNull, ScenarioTrue, ScenarioHello, Scenario42, ScenarioAA, ScenarioXY, ScenarioKK}

\* A string that holds every escaping symbol.
AllEscaping == <<":", "$", "&", "#", "%", "[", "]", "{", "}", BS, NUL, TAB, LF, CR>>

\* Further inputs: the remaining kinds of value, strings of reserved
\* characters and of placeholder look-alikes, and larger repeated structures.
EdgeValues ==
  {False, Inf, NInf, NaN, Num(0), Num(0 - 7), Num(1200), BigInt(0 - 12), Str(<<>>),
   Str(AllEscaping), Str(<<NUL>>), Str(<<"$", "0">>), Str(<<"+", "1">>),
   Arr(<<Str(<<NUL, NUL>>)>>),
   Arr(<<Str(AllEscaping), Str(AllEscaping)>>),
   Arr(<<Str(<<"$", "0">>), Str(<<"$", "0">>), Str(<<"?", "0">>)>>),
   Arr(<<Str(<<"+", "0">>), Arr(<<Str(<<"?", "1">>), Str(<<"?", "1">>)>>), Str(<<"+", "0">>)>>),
   Arr(<<Str(<<"a">>), Arr(<<Str(<<"b">>), Str(<<"b">>)>>), Str(<<"a">>)>>),
   Arr(<<Str(<<"a">>), Arr(<<Str(<<"b">>), Str(<<"b">>), Str(<<"a">>)>>)>>),
   Arr(<<Arr(<<>>), Arr(<<>>), Obj(<<>>, <<>>), Obj(<<>>, <<>>)>>),
   Arr(<<Obj(<<<<"x">>, <<"y">>>>, <<Num(1), Num(2)>>),
         Obj(<<<<"x">>, <<"y">>>>, <<Num(2), Null>>),
         Arr(<<Str(<<"x">>), Str(<<"y">>)>>)>>),
   Arr(<<Arr(<<Arr(<<Num(10), Num(10)>>)>>), Arr(<<Arr(<<Num(10), Num(10)>>)>>)>>),
   Obj(<<<<"b">>, <<"a">>>>, <<Str(<<"a">>), Str(<<"b">>)>>),
   Obj(<<<<NUL>>>>, <<Str(<<NUL>>)>>),
   Obj(<<ProtoKey>>, <<Num(1)>>)}

InputValues == GeneratedValues \cup ScenarioValues \cup EdgeValues

-----------------------------------------------------------------------------
(* Tsion: each call constructs its own Encoder or Decoder *)

NoResult == Throw(0, "none")

Init ==
  /\ value \in InputValues
  /\ text = <<>>
  /\ result = NoResult
  /\ pc = "start"
  /\ encoder = NewEncoder
  /\ decoder = NewDecoder
  /\ calls = 0

\* text = Tsion.encode(value); `encoder` keeps the fields of the instance
\* the call constructed, as the call leaves them.
TsionEncode ==
  /\ pc = "start"
  /\ LET r == encode(NewEncoder, value)
     IN /\ encoder' = r.enc
        /\ text' = r.ret
  /\ pc' = "encoded"
  /\ UNCHANGED <<value, result, decoder, calls>>

\* result = Tsion.decode(text), likewise.
TsionDecode ==
  /\ pc = "encoded"
  /\ LET r == decode(NewDecoder, text)
     IN /\ decoder' = r.dec
        /\ result' = r.ret
  /\ pc' = "decoded"
  /\ UNCHANGED <<value, text, encoder, calls>>

Next == TsionEncode \/ TsionDecode

Spec == Init /\ [][Next]_vars

-----------------------------------------------------------------------------
(* Tsion.decode on texts that no encoder wrote *)

\* The largest number of pieces of a generated text.
MaxPieces == 5

\* Whatever follows the last piece is escaped, as part of its string.
TextPieces ==
  {<<":", "n">>, <<"$", "0">>, <<"$", "1">>, <<"[">>, <<"]">>, <<NUL>>, <<"&", "a", BS>>}

\* The texts of at most n pieces.
RECURSIVE TextsOf(_)
TextsOf(n) ==
  IF n = 0 THEN {<<>>}
  ELSE LET shorter == TextsOf(n - 1)
       IN shorter \cup {t \o q : t \in shorter, q \in TextPieces}

InitText ==
  /\ value = Null
  /\ text \in TextsOf(MaxPieces)
  /\ result = NoResult
  /\ pc = "encoded"
  /\ encoder = NewEncoder
  /\ decoder = NewDecoder
  /\ calls = 0

NextText == TsionDecode

SpecText == InitText /\ [][NextText]_vars

-----------------------------------------------------------------------------
(* Tsion.decode on texts whose content is an object token *)

\* The largest number of tokens between `{` and `}`.
MaxTokens == 3

\* The tokens written between `{` and `}`: keys, lists of keys, values, and
\* tokens that are neither.
ObjectTokens ==
  {<<"&", "k">>,
   <<"&">> \o ProtoKey,
   <<"#", "1">>,
   <<":", "n">>,
   <<"[", "&", "a", "&", "k", "]">>,
   <<"[", "&", "k", "&", "k", "]">>,
   <<"[", "&", "a", "]">>,
   <<"[", "&", "a", "#", "1", "]">>,
   <<"$", "0">>,
   <<"{", "}">>}

\* What precedes the content: nothing, or a dictionary of one entry and the
\* separator.
DictionaryPrefixes ==
  {<<>>,
   <<"&", "k", NUL>>,
   <<"[", "&", "a", "&", "k", "]", NUL>>,
   <<"#", "1", NUL>>}

\* The texts of n tokens, one after the other.
RECURSIVE TokenLists(_)
TokenLists(n) ==
  IF n = 0 THEN {<<>>}
  ELSE {t \o q : t \in TokenLists(n - 1), q \in ObjectTokens}

InitObject ==
  /\ value = Null
  /\ \E n \in 0..MaxTokens :
       text \in {p \o <<"{">> \o b \o <<"}">> : p \in DictionaryPrefixes, b \in TokenLists(n)}
  /\ result = NoResult
  /\ pc = "encoded"
  /\ encoder = NewEncoder
  /\ decoder = NewDecoder
  /\ calls = 0

NextObject == TsionDecode

SpecObject == InitObject /\ [][NextObject]_vars

-----------------------------------------------------------------------------
(* One Encoder and one Decoder instance, called several times *)

\* The largest number of calls made on the instances.
MaxCalls == 2

ReuseValues == {Null, True, Str(<<"a">>), Arr(<<Str(<<"a">>), Str(<<"a">>)>>),
                Arr(<<Str(<<"b">>), Str(<<"b">>)>>), Arr(<<Null>>)}

ReuseTexts == {<<":", "n">>, <<":", "t">>, <<"&", "a">>, <<"[", ":", "n", "]">>,
               <<"&", "a", NUL, "[", "$", "0", "$", "0", "]">>, <<":", "t", NUL, "$", "0">>}

InitReuse ==
  /\ value = Null
  /\ text = <<>>
  /\ result = NoResult
  /\ pc = "idle"
  /\ encoder = NewEncoder
  /\ decoder = NewDecoder
  /\ calls = 0

\* text = encoder.encode(v) on the one Encoder instance.
EncoderEncode(v) ==
  /\ calls < MaxCalls
  /\ LET r == encode(encoder, v)
     IN /\ encoder' = r.enc
        /\ text' = r.ret
  /\ value' = v
  /\ pc' = "encoded"
  /\ calls' = calls + 1
  /\ UNCHANGED <<result, decoder>>

\* result = decoder.decode(t) on the one Decoder instance.
DecoderDecode(t) ==
  /\ calls < MaxCalls
  /\ LET r == decode(decoder, t)
     IN /\ decoder' = r.dec
        /\ result' = r.ret
  /\ text' = t
  /\ pc' = "decoded"
  /\ calls' = calls + 1
  /\ UNCHANGED <<value, encoder>>

NextReuse ==
  \/ \E v \in ReuseValues : EncoderEncode(v)
  \/ \E t \in ReuseTexts : DecoderDecode(t)

SpecReuse == InitReuse /\ [][NextReuse]_vars

-----------------------------------------------------------------------------
(* Reading an encoded text by the wire grammar: lexemes and tokens.  These *)
(* definitions serve the statements below; the Decoder does not use them.  *)

\* The end (exclusive) of the body of a string literal that starts at i.
RECURSIVE StringBodyEnd(_, _)
StringBodyEnd(t, i) ==
  IF i > Len(t) THEN i
  ELSE IF t[i] = BS THEN StringBodyEnd(t, IF i + 1 > Len(t) THEN i + 1 ELSE i + 2)
  ELSE IF t[i] \in sigils \cup delimiters \cup {NUL} THEN i
  ELSE StringBodyEnd(t, i + 1)

RECURSIVE PlainBodyEnd(_, _)
PlainBodyEnd(t, i) ==
  IF i > Len(t) \/ t[i] \in sigils \cup delimiters \cup {NUL} THEN i
  ELSE PlainBodyEnd(t, i + 1)

\* The lexemes of t from position i on: a leaf token (sigil and body), a
\* delimiter, the separator NUL, or a character that starts nothing.
RECURSIVE Lex(_, _)
Lex(t, i) ==
  IF i > Len(t) THEN <<>>
  ELSE LET c == t[i]
           end == IF c = "&" THEN StringBodyEnd(t, i + 1)
                  ELSE IF c \in sigils THEN PlainBodyEnd(t, i + 1)
                  ELSE i + 1
           type == IF c \in sigils THEN "leaf"
                   ELSE IF c \in {"[", "{"} THEN "open"
                   ELSE IF c \in {"]", "}"} THEN "close"
                   ELSE IF c = NUL THEN "nul"
                   ELSE "junk"
       IN <<[type |-> type, c |-> c, from |-> i, to |-> end - 1]>> \o Lex(t, end)

\* The nesting depth after each lexeme.
RECURSIVE Depths(_, _, _)
Depths(lx, j, depth) ==
  IF j > Len(lx) THEN <<>>
  ELSE LET d == IF lx[j].type = "open" THEN depth + 1
                ELSE IF lx[j].type = "close" /\ depth > 0 THEN depth - 1
                ELSE depth
       IN <<d>> \o Depths(lx, j + 1, d)

\* Lexeme j ends a top-level token.
EndsTopToken(lx, dp, j) ==
  \/ lx[j].type = "leaf" /\ dp[j] = 0
  \/ lx[j].type = "close" /\ dp[j] = 0 /\ j > 1 /\ dp[j - 1] = 1

\* The lexemes that end the top-level tokens, in order.
TopEnds(lx, dp) == SelectSeq([j \in 1..Len(lx) |-> j], LAMBDA j : EndsTopToken(lx, dp, j))

\* The lexeme that starts the token that lexeme j ends.
TokenStart(lx, dp, j) ==
  IF lx[j].type = "leaf" THEN j
  ELSE CHOOSE i \in 1..j :
         /\ lx[i].type = "open"
         /\ dp[i] = dp[j] + 1
         /\ \A m \in i..(j - 1) : dp[m] > dp[j]
         /\ \A i2 \in (i + 1)..j : ~(lx[i2].type = "open" /\ dp[i2] = dp[j] + 1
                                      /\ \A m \in i2..(j - 1) : dp[m] > dp[j])

\* How many top-level tokens are complete before lexeme j.
EntriesBefore(lx, dp, j) == Cardinality({m \in 1..(j - 1) : EndsTopToken(lx, dp, m)})

IsRef(l) == l.type = "leaf" /\ l.c = "$"

RefKey(t, l) == SubSeq(t, l.from + 1, l.to)

\* `$n` at lexeme j names a top-level token that is complete before it.
RefIsBackward(t, lx, dp, j) ==
  /\ RefKey(t, lx[j]) # <<>>
  /\ AllDigits(RefKey(t, lx[j]))
  /\ DigitsToNat(RefKey(t, lx[j])) < EntriesBefore(lx, dp, j)

AllRefsBackward(t) ==
  LET lx == Lex(t, 1)
      dp == Depths(lx, 1, 0)
  IN \A j \in 1..Len(lx) : IsRef(lx[j]) => RefIsBackward(t, lx, dp, j)

HasRef(t) == \E j \in 1..Len(Lex(t, 1)) : IsRef(Lex(t, 1)[j])

-----------------------------------------------------------------------------
(* C1 *)

Encoded == pc \in {"encoded", "decoded"}

Decoded == pc = "decoded"

\* C1: decoding the encoded text of any value succeeds and returns a value
\* structurally equal to the one encoded, object keys in the same order.
RoundTrip == Decoded => (result.ok /\ result.value = value)


\* Some object within v has the own key "__proto__".
RECURSIVE HasProtoKey(_)
HasProtoKey(v) ==
  \/ v.k = "obj" /\ SeqHas(v.keys, ProtoKey)
  \/ \E i \in 1..Len(v.items) : HasProtoKey(v.items[i])

\* The round trip of every value none of whose objects has the key
\* "__proto__", which Decoder.decodeObject cannot store.
RoundTripOwnKeys == (Decoded /\ ~HasProtoKey(value)) => (result.ok /\ result.value = value)


\* C1 (witness): a value with a repeated string, a repeated structure and
\* an object has been encoded with a dictionary and decoded.
RoundTripWitness ==
  /\ Decoded
  /\ result.ok
  /\ result.value = value
  /\ HasRef(text)
  /\ value.k = "arr"
  /\ \E i \in 1..Len(value.items) : value.items[i].k = "obj" /\ Len(value.items[i].keys) = 2

-----------------------------------------------------------------------------
(* C2 *)

\* C2: in the encoded text every `$n` names a dictionary entry that is
\* complete before it (n < k inside the k-th entry, n < number of entries
\* in the content), and decoding it never meets an unknown back-reference.
ReferenceValidity ==
  /\ Encoded => AllRefsBackward(text)
  /\ Decoded => result.error # "Unknown value $"

\* Some `$n` stands inside a dictionary entry, and some in the content.
RefInsideEntry(t) ==
  LET lx == Lex(t, 1)
      dp == Depths(lx, 1, 0)
  IN \E m \in 1..Len(lx) :
       /\ lx[m].type = "nul"
       /\ \E j \in 1..(m - 1) : IsRef(lx[j]) /\ dp[j] > 0
       /\ \E j \in (m + 1)..Len(lx) : IsRef(lx[j])

ReferenceValidityWitness == Decoded /\ result.ok /\ RefInsideEntry(text)

-----------------------------------------------------------------------------
(* C3 *)

\* The top-level tokens of the lexemes lx, each as its first and last lexeme.
TopTokens(lx, dp) ==
  LET ends == TopEnds(lx, dp)
  IN [m \in 1..Len(ends) |-> [first |-> TokenStart(lx, dp, ends[m]), last |-> ends[m]]]

\* The text of lexemes a..b with every back-reference replaced, recursively,
\* by the text of the entry it names.
RECURSIVE Resolved(_, _, _, _, _)
Resolved(t, lx, dp, a, b) ==
  IF a > b THEN <<>>
  ELSE (IF IsRef(lx[a]) /\ RefIsBackward(t, lx, dp, a)
        THEN LET entry == TopTokens(lx, dp)[DigitsToNat(RefKey(t, lx[a])) + 1]
             IN Resolved(t, lx, dp, entry.first, entry.last)
        ELSE SubSeq(t, lx[a].from, lx[a].to))
       \o Resolved(t, lx, dp, a + 1, b)

\* Lexeme j ends a token that writes out a literal or a structure.
EndsWrittenToken(lx, j) ==
  \/ lx[j].type = "leaf" /\ lx[j].c \in {"&", "#", "%"}
  \/ lx[j].type = "close"

\* The resolved bodies of the literals and structures written out in t.
WrittenBodies(t) ==
  LET lx == Lex(t, 1)
      dp == Depths(lx, 1, 0)
      ends == SelectSeq([j \in 1..Len(lx) |-> j], LAMBDA j : EndsWrittenToken(lx, j))
  IN [m \in 1..Len(ends) |-> Resolved(t, lx, dp, TokenStart(lx, dp, ends[m]), ends[m])]

NoDuplicates(q) == \A i \in 1..Len(q) : \A j \in 1..Len(q) : q[i] = q[j] => i = j

\* C3: no literal body and no resolved structure body is written out twice
\* in the encoded text, dictionary and content together.
DedupSoundness == Encoded => NoDuplicates(WrittenBodies(text))

\* The strings, numbers, bigints, arrays and objects within v, the object
\* keys (as strings) and the key lists of objects of two or more keys (as
\* arrays), once per occurrence.
RECURSIVE Occurrences(_)
RECURSIVE OccurrencesOfAll(_)
OccurrencesOfAll(q) ==
  IF q = <<>> THEN <<>> ELSE Occurrences(Head(q)) \o OccurrencesOfAll(Tail(q))

Occurrences(v) ==
  CASE v.k \in {"str", "num", "bigint"} -> <<v>>
    [] v.k = "arr" -> <<v>> \o OccurrencesOfAll(v.items)
    [] v.k = "obj" ->
         <<v>> \o (IF Len(v.keys) >= 2 THEN <<Arr(StrItems(v.keys))>> ELSE <<>>)
               \o StrItems(v.keys) \o OccurrencesOfAll(v.items)
    [] OTHER -> <<>>

NoRepeats(v) == NoDuplicates(Occurrences(v))

\* A value in which a structure occurs twice has been encoded, the second
\* occurrence as a back-reference.
DedupSoundnessWitness ==
  /\ Encoded
  /\ HasRef(text)
  /\ \E i \in 1..Len(Occurrences(value)) : \E j \in 1..Len(Occurrences(value)) :
       i # j /\ Occurrences(value)[i] = Occurrences(value)[j] /\ Occurrences(value)[i].k = "obj"


-----------------------------------------------------------------------------
(* C6 *)

CountChar(t, c) == Cardinality({i \in 1..Len(t) : t[i] = c})

\* The positions of the separators of t: the NULs that no backslash escapes.
Separators(t) ==
  LET lx == Lex(t, 1)
  IN {lx[j].from : j \in {m \in 1..Len(lx) : lx[m].type = "nul"}}

\* C6 as stated: the encoded text holds no NUL when the dictionary is empty
\* and exactly one NUL otherwise.
AtMostOneNul ==
  Encoded => CountChar(text, NUL) = (IF encoder.dictionary = <<>> THEN 0 ELSE 1)

\* C6 (amended): the encoded text holds no separator (a NUL that no
\* backslash escapes) when the dictionary is empty, and exactly one, right
\* after the dictionary, otherwise; the NULs of strings are written too,
\* each after a backslash.
AtMostOneSeparator ==
  Encoded =>
    /\ Separators(text) = (IF encoder.dictionary = <<>> THEN {} ELSE {Len(encoder.dictionary) + 1})
    /\ \A i \in 1..Len(text) :
         text[i] = NUL /\ i \notin Separators(text) => (i > 1 /\ text[i - 1] = BS)

\* A text with its separator and with the escaped NULs of a repeated string.
AtMostOneSeparatorWitness ==
  /\ Encoded
  /\ encoder.dictionary # <<>>
  /\ Cardinality(Separators(text)) = 1
  /\ CountChar(text, NUL) > 1

-----------------------------------------------------------------------------
(* C7 *)

\* C7 as stated: a value without repeated literal or structure is encoded to
\* a text with no NUL and no `$` token.
MinimalDictionaryNoNul ==
  (Encoded /\ NoRepeats(value)) => (CountChar(text, NUL) = 0 /\ ~HasRef(text))

\* C7 (amended): a value without repeated literal or structure is encoded
\* with an empty dictionary: the text has no separator (a NUL that no
\* backslash escapes) and no `$` token.
MinimalDictionary ==
  (Encoded /\ NoRepeats(value)) =>
    (encoder.dictionary = <<>> /\ Separators(text) = {} /\ ~HasRef(text))

\* A two-key object of a string and a number, nothing repeated, has been
\* encoded without dictionary.
MinimalDictionaryWitness ==
  /\ Encoded
  /\ NoRepeats(value)
  /\ value.k = "obj"
  /\ Len(value.keys) = 2
  /\ value.items[1].k = "str"
  /\ value.items[2].k = "num"
  /\ encoder.dictionary = <<>>

-----------------------------------------------------------------------------
(* C8 *)

\* The texts of the concrete-scenario table.
TableNull == <<":", "n">>

TableTrue == <<":", "t">>

TableHello == <<"&">> \o Hello

Table42 == <<"#", "4", "2">>

TableAA == <<"&", "a", NUL, "[", "$", "0", "$", "0", "]">>

TableXY == <<"[", "&", "x", "&", "y", "]", NUL, "{", "$", "0", "#", "1", "#", "2", "}">>

TableKK == <<"&", "k", "{", "$", "0", "#", "1", "}", NUL, "[", "$", "1", "$", "1", "]">>

\* What Encoder.encode returns for the two-key object and for the repeated
\* one-key object of the table.
EncodedXY == <<"{", "[", "&", "x", "&", "y", "]", "#", "1", "#", "2", "}">>

EncodedKK == <<"{", "&", "k", "#", "1", "}", NUL, "[", "$", "0", "$", "0", "]">>

ScenarioRows(xy, kk) ==
  /\ value = ScenarioNull => text = TableNull
  /\ value = ScenarioTrue => text = TableTrue
  /\ value = ScenarioHello => text = TableHello
  /\ value = Scenario42 => text = Table42
  /\ value = ScenarioAA => text = TableAA
  /\ value = ScenarioXY => text = xy
  /\ value = ScenarioKK => text = kk

\* C8 as stated: encode returns the text the table lists for each input.
ScenarioTable == Encoded => ScenarioRows(TableXY, TableKK)

\* C8 (amended): encode returns the table's text for null, true, "hello", 42
\* and ["a","a"]; {"x":1,"y":2} has no repeated part and is encoded without
\* dictionary as `{[&x&y]#1#2}`; in [{"k":1},{"k":1}] only the object occurs
\* twice and the text is `{&k#1}` NUL `[$0$0]`.
ScenarioTableAsEncoded == Encoded => ScenarioRows(EncodedXY, EncodedKK)

ScenarioTableWitness == Encoded /\ value = ScenarioKK /\ text = EncodedKK

-----------------------------------------------------------------------------
(* C10 *)

\* The bodies of structureMap as encodeValue stored them (before the
\* rewrite pass), in insertion order.
UnresolvedBodies == [i \in 1..Len(encoder.structurePlaceholderMap) |->
                       encoder.structurePlaceholderMap[i].key]

RECURSIVE Concat(_)
Concat(q) == IF q = <<>> THEN <<>> ELSE Head(q) \o Concat(Tail(q))

\* The placeholders of all unresolved bodies, in the order of the scan.
ScanOrder == MatchPlaceholders(Concat(UnresolvedBodies), 1)

FirstUse(p) == CHOOSE i \in 1..Len(ScanOrder) :
                 ScanOrder[i] = p /\ \A j \in 1..(i - 1) : ScanOrder[j] # p

PlaceholderIndex(p) == DigitsToNat(Tail(p))

\* The body the dictionary holds for the lifted placeholder p.
LiftedBody(p) ==
  IF p[1] = "?" THEN MapGet(encoder.literalMap, p) ELSE MapGet(encoder.structureMap, p)

\* C10 as stated: of two lifted literals, the one of smaller `?n` index has
\* the smaller `$m` index.
LiteralIndexOrder ==
  Encoded =>
    LET dm == encoder.duplicatePlaceholderMap
    IN \A i \in 1..Len(dm) : \A j \in 1..Len(dm) :
         (dm[i].key[1] = "?" /\ dm[j].key[1] = "?"
            /\ PlaceholderIndex(dm[i].key) < PlaceholderIndex(dm[j].key))
         => PlaceholderIndex(dm[i].val) < PlaceholderIndex(dm[j].val)

\* C10 (amended): `$m` indices are given in sequence, first to all lifted
\* literals, in the order in which the scan of the structure bodies (in
\* structureMap insertion order) first meets them, then to the lifted
\* structures in increasing `+n` order; the dictionary lists the bodies in
\* that same order.
DictionaryOrder ==
  Encoded =>
    LET dm == encoder.duplicatePlaceholderMap
    IN /\ \A i \in 1..Len(dm) : dm[i].val = <<"$">> \o NatToChars(i - 1)
       /\ \A i \in 1..Len(dm) : \A j \in (i + 1)..Len(dm) :
            /\ dm[i].key[1] = "+" => dm[j].key[1] = "+"
            /\ (dm[i].key[1] = "?" /\ dm[j].key[1] = "?")
                 => FirstUse(dm[i].key) < FirstUse(dm[j].key)
            /\ (dm[i].key[1] = "+" /\ dm[j].key[1] = "+")
                 => PlaceholderIndex(dm[i].key) < PlaceholderIndex(dm[j].key)
       /\ encoder.dictionary = Concat([i \in 1..Len(dm) |-> LiftedBody(dm[i].key)])

\* Two literals have been lifted, the one of larger `?n` index first.
DictionaryOrderWitness ==
  /\ Encoded
  /\ LET dm == encoder.duplicatePlaceholderMap
     IN \E i \in 1..Len(dm) : \E j \in (i + 1)..Len(dm) :
          /\ dm[i].key[1] = "?"
          /\ dm[j].key[1] = "?"
          /\ PlaceholderIndex(dm[j].key) < PlaceholderIndex(dm[i].key)


-----------------------------------------------------------------------------
(* C11 *)

\* How often the placeholder p occurs in the unresolved bodies of
\* structureMap, every occurrence counted.
UseCount(p) == Cardinality({i \in 1..Len(ScanOrder) : ScanOrder[i] = p})

\* How often p occurs in the unresolved body b.
UseCountIn(b, p) ==
  Cardinality({i \in 1..Len(MatchPlaceholders(b, 1)) : MatchPlaceholders(b, 1)[i] = p})

\* The intermediate placeholders the encoder has given out.
AllPlaceholders ==
  {encoder.literalMap[i].key : i \in 1..Len(encoder.literalMap)}
  \cup {encoder.structureMap[i].key : i \in 1..Len(encoder.structureMap)}

IsLifted(p) == \E i \in 1..Len(encoder.duplicatePlaceholderMap) :
                 encoder.duplicatePlaceholderMap[i].key = p

LiftedAs(p) ==
  encoder.duplicatePlaceholderMap[CHOOSE i \in 1..Len(encoder.duplicatePlaceholderMap) :
                                    encoder.duplicatePlaceholderMap[i].key = p].val

\* The body of the structure placeholder p as encodeValue stored it.
UnresolvedBody(p) ==
  encoder.structurePlaceholderMap[CHOOSE i \in 1..Len(encoder.structurePlaceholderMap) :
                                    encoder.structurePlaceholderMap[i].val = p].key

LiteralOf(p) ==
  encoder.literalMap[CHOOSE i \in 1..Len(encoder.literalMap) : encoder.literalMap[i].key = p].val

RECURSIVE ResolvedBody(_)
RECURSIVE ResolveFrom(_, _)

\* The unresolved text s from position i on, every placeholder replaced by
\* its `$m` when it is lifted and by its resolved body when it is not.
ResolveFrom(s, i) ==
  IF i > Len(s) THEN <<>>
  ELSE IF s[i] \in {"?", "+"}
  THEN LET p == SubSeq(s, i, DigitsEnd(s, i + 1) - 1)
       IN (IF IsLifted(p) THEN LiftedAs(p) ELSE ResolvedBody(p))
          \o ResolveFrom(s, DigitsEnd(s, i + 1))
  ELSE <<s[i]>> \o ResolveFrom(s, i + 1)

\* The literal, or the resolved body of the structure, that p stands for.
ResolvedBody(p) == IF p[1] = "?" THEN LiteralOf(p) ELSE ResolveFrom(UnresolvedBody(p), 1)

\* What encodeValue returns for the root value, before the rewrite pass.
RootContent == encodeValue(NewEncoder, value).ret

-----------------------------------------------------------------------------
(* C4 *)

DepthBefore(dp, j) == IF j = 1 THEN 0 ELSE dp[j - 1]

\* Lexemes a..b are complete tokens, one after the other, and nothing else.
CompleteTokens(lx, dp, a, b) ==
  /\ \A j \in a..b :
       /\ lx[j].type \notin {"junk", "nul"}
       /\ lx[j].type = "close" => DepthBefore(dp, j) > 0
  /\ b >= a => dp[b] = 0

TokensIn(lx, dp, a, b) == Cardinality({j \in a..b : EndsTopToken(lx, dp, j)})

\* Exactly one complete token, no separator.
ContentOnlyShape(lx, dp) ==
  /\ CompleteTokens(lx, dp, 1, Len(lx))
  /\ TokensIn(lx, dp, 1, Len(lx)) = 1

\* Complete tokens, the separator at lexeme m, one complete token, the end.
DictionaryShape(lx, dp, m) ==
  /\ lx[m].type = "nul"
  /\ CompleteTokens(lx, dp, 1, m - 1)
  /\ CompleteTokens(lx, dp, m + 1, Len(lx))
  /\ TokensIn(lx, dp, m + 1, Len(lx)) = 1

\* The value of the token of `source` that starts at lexeme j, the
\* dictionary being dictionaryMap.
TokenValue(source, lx, dictionaryMap, j) ==
  decodeToken(source, dictionaryMap, lx[j].from - 1).value

\* The failures the claim lists: no input, two tokens without separator,
\* nothing after the separator, a second separator after the final token.
TwoTokens == <<":", "n", ":", "n">>

ListedFailures ==
  text \in {<<>>, TwoTokens, TwoTokens \o <<NUL>>, <<NUL>>,
            TwoTokens \o <<NUL>> \o <<":", "n">> \o <<NUL>>}
    => ~result.ok

\* C4: decode returns a value only for one complete token without separator,
\* or for complete tokens, one separator and one complete token up to the end
\* of the input; the value returned is that of the single or final token;
\* every other text makes decode fail.
TopLevelShape ==
  Decoded =>
    /\ ListedFailures
    /\ result.ok =>
         LET lx == Lex(text, 1)
             dp == Depths(lx, 1, 0)
         IN \/ /\ ContentOnlyShape(lx, dp)
               /\ result.value = TokenValue(text, lx, <<>>, 1)
            \/ \E m \in 1..Len(lx) :
                 /\ DictionaryShape(lx, dp, m)
                 /\ result.value = TokenValue(text, lx, decoder.dictionaryMap, m + 1)

\* A text of a dictionary token, the separator and an array that refers to
\* it has been decoded.
TopLevelShapeWitness ==
  /\ Decoded
  /\ result.ok
  /\ result.value.k = "arr"
  /\ Len(result.value.items) = 1
  /\ Len(decoder.dictionaryMap) = 1
  /\ Cardinality(Separators(text)) = 1

-----------------------------------------------------------------------------
(* C5 *)

\* C5: decode fails on every text in which some `$k` does not name a
\* top-level token that is complete before it, and on every text without
\* separator that holds a `$k` at all.
UnknownReferenceRejected ==
  (Decoded /\ result.ok) =>
    /\ AllRefsBackward(text)
    /\ Separators(text) = {} => ~HasRef(text)

\* A dictionary entry that refers to itself has been rejected.
UnknownReferenceWitness ==
  /\ Decoded
  /\ ~result.ok
  /\ result.error = "Unknown value $"
  /\ text = <<"[", "$", "0", "]", NUL, ":", "n">>

-----------------------------------------------------------------------------
(* C9 *)

Outcome(r) == [ok |-> r.ok, value |-> r.value, error |-> r.error]

\* C9: the result of a call on an Encoder or Decoder instance is that of the
\* same call on a new instance, whatever was called on the instance before.
CallIndependence ==
  /\ pc = "encoded" => text = encode(NewEncoder, value).ret
  /\ pc = "decoded" => Outcome(result) = Outcome(decode(NewDecoder, text).ret)

-----------------------------------------------------------------------------
(* C12 *)

\* The lexeme at which the content token starts: the first one, or the one
\* after the separator.
ContentStart(lx) ==
  IF \E m \in 1..Len(lx) : lx[m].type = "nul"
  THEN (CHOOSE m \in 1..Len(lx) :
          lx[m].type = "nul" /\ \A m2 \in 1..(m - 1) : lx[m2].type # "nul") + 1
  ELSE 1

\* The text is an object token, alone or after a dictionary that the decoder
\* has read.
IsObjectText(lx, dp) ==
  /\ lx # <<>>
  /\ ContentOnlyShape(lx, dp) \/ \E m \in 1..Len(lx) : DictionaryShape(lx, dp, m)
  /\ lx[ContentStart(lx)].c = "{"
  /\ lx[Len(lx)].c = "}"
  /\ decoder.index >= lx[ContentStart(lx)].from - 1

\* Lexeme j ends a token that stands directly inside the content token.
EndsInnerToken(lx, dp, j) ==
  \/ lx[j].type = "leaf" /\ dp[j] = 1
  \/ lx[j].type = "close" /\ dp[j] = 1 /\ dp[j - 1] = 2

InnerEnds(lx, dp) ==
  SelectSeq([j \in 1..Len(lx) |-> j],
            LAMBDA j : j > ContentStart(lx) /\ j < Len(lx) /\ EndsInnerToken(lx, dp, j))

\* What each token inside the object decodes to on its own, the dictionary
\* being the one read before the separator.
InnerValues(lx, dp) ==
  LET ends == InnerEnds(lx, dp)
      dm == IF ContentStart(lx) = 1 THEN <<>> ELSE decoder.dictionaryMap
  IN [i \in 1..Len(ends) |-> decodeToken(text, dm, lx[TokenStart(lx, dp, ends[i])].from - 1)]

\* The keys that the value of the first token lists, <<>> if it lists none.
KeysOf(first) ==
  IF first.k = "str" THEN <<first.s>>
  ELSE IF /\ first.k = "arr"
          /\ Len(first.items) >= 2
          /\ \A i \in 1..Len(first.items) : first.items[i].k = "str"
  THEN [i \in 1..Len(first.items) |-> first.items[i].s]
  ELSE <<>>

ValueUnder(object, key) ==
  object.items[CHOOSE i \in 1..Len(object.keys) : object.keys[i] = key]

\* The outcome of decode for an object whose inner tokens decode to vals.
ObjectOutcome(vals) ==
  IF \E i \in 1..Len(vals) : ~vals[i].ok THEN ~result.ok
  ELSE IF vals = <<>> THEN result.ok /\ result.value = Obj(<<>>, <<>>)
  ELSE LET keys == KeysOf(vals[1].value)
       IN IF keys = <<>> \/ Len(keys) # Len(vals) - 1 THEN ~result.ok
          ELSE /\ result.ok
               /\ result.value.k = "obj"
               /\ Range(result.value.keys) = Range(keys)
               /\ \A i \in 1..Len(keys) :
                    (\A j \in (i + 1)..Len(keys) : keys[j] # keys[i])
                      => ValueUnder(result.value, keys[i]) = vals[i + 1].value

\* The first token inside the object lists the key "__proto__".
ListsProtoKey(vals) ==
  /\ vals # <<>>
  /\ vals[1].ok
  /\ \E i \in 1..Len(KeysOf(vals[1].value)) : KeysOf(vals[1].value)[i] = ProtoKey

\* C12: `{}` decodes to the empty object; otherwise the first token inside
\* the braces, written out or referred to by `$n`, must decode to a string
\* or to an array of two or more strings, the tokens after it are the values,
\* the i-th value is stored under the i-th key, and decode fails when the
\* first token is anything else or the values are not as many as the keys.
ObjectDecoding ==
  Decoded =>
    LET lx == Lex(text, 1)
        dp == Depths(lx, 1, 0)
    IN IsObjectText(lx, dp) => ObjectOutcome(InnerValues(lx, dp))

\* The same for the objects whose keys do not include "__proto__".
ObjectDecodingOwnKeys ==
  Decoded =>
    LET lx == Lex(text, 1)
        dp == Depths(lx, 1, 0)
    IN (IsObjectText(lx, dp) /\ ~ListsProtoKey(InnerValues(lx, dp)))
         => ObjectOutcome(InnerValues(lx, dp))

\* An object of two keys, listed by a dictionary entry, has been decoded.
ObjectDecodingWitness ==
  /\ Decoded
  /\ result.ok
  /\ text = <<"[", "&", "a", "&", "k", "]", NUL, "{", "$", "0", "#", "1", ":", "n", "}">>
  /\ result.value = Obj(<<<<"a">>, <<"k">>>>, <<Num(1), Null>>)

====
